---------------------------- MODULE Spec2Model ----------------------------
(***************************************************************************)
(* A model of s3-benchmark.py: the argument validation, the coordinator    *)
(* (the __main__ block) and the pool of worker threads that drain one      *)
(* shared queue.Queue.                                                     *)
(*                                                                         *)
(* Strings are sequences of one-character strings.  An optional command    *)
(* line flag is <<>> when it is absent (Python's None) and <<v>> when it   *)
(* is given.  The worker threads all run the same function on the same     *)
(* arguments and carry no identity, so the pool is a bag of thread states. *)
(***************************************************************************)
EXTENDS Integers, Sequences, FiniteSets, Bags, TLC

(* ------------------------------ bounds -------------------------------- *)

\* the largest item count given with --number
MaxItems == 3

\* the largest thread count that is combined with every item count
MaxWorkers == 3

\* the largest product of threads and items of a run of a larger pool
MaxLoad == 30

\* the largest number written before a size suffix
MaxSizeNumber == 30

\* the length of the longest prefix given with --prefix
MaxPrefixLen == 3

(* ------------------------- program constants -------------------------- *)

MAX_THREADS == 100

\* the value verify_args stores when --threads is absent or zero
DefaultThreads == 10

KiB == 1024

(* ------------------------------ strings ------------------------------- *)

Digits == <<"0", "1", "2", "3", "4", "5", "6", "7", "8", "9">>

IsDigit(c) == \E d \in 1..10 : Digits[d] = c

DigitVal(c) == (CHOOSE d \in 1..10 : Digits[d] = c) - 1

\* str(n) for n >= 0
RECURSIVE Str(_)
Str(n) == IF n < 10 THEN <<Digits[n + 1]>>
                    ELSE Str(n \div 10) \o <<Digits[(n % 10) + 1]>>

\* whether int(s) accepts s: a non-empty string of decimal digits (the
\* inputs drawn below hold no sign, blank or underscore)
IsDecimal(s) == s # <<>> /\ \A k \in 1..Len(s) : IsDigit(s[k])

\* int(s) for a string int() accepts
RECURSIVE IntOf(_)
IntOf(s) ==
  IF Len(s) = 1 THEN DigitVal(s[1])
  ELSE 10 * IntOf(SubSeq(s, 1, Len(s) - 1)) + DigitVal(s[Len(s)])

Last(s) == s[Len(s)]

ButLast(s) == SubSeq(s, 1, Len(s) - 1)

\* the literal 'testfile-'
Basename == <<"t", "e", "s", "t", "f", "i", "l", "e", "-">>

\* the name the coordinator enqueues for index k
ItemName(k) == Basename \o Str(k)

\* the object key put_object writes: str(prefix + remote_file)
ObjectKey(prefix, remote_file) == prefix \o remote_file


(* ------------------------- command line inputs ------------------------ *)

\* --threads: absent, negative, zero, small pools, the ceiling and one above
ThreadFlags ==
  {<<>>, <<-1>>, <<0>>, <<MAX_THREADS>>, <<MAX_THREADS + 1>>}
    \cup {<<t>> : t \in 1..MaxWorkers}

\* args.size holds the string given, and after verify_args the number of
\* bytes: the two kinds of value are told apart by their field
StrV(s) == [str |-> s]

IntV(n) == [int |-> n]

\* --size: absent, the three suffixes, an unknown suffix, a suffix alone
SizeFlags ==
  {<<>>} \cup {<<StrV(s)>> : s \in {<<"1", "K">>, <<"2", "M">>, <<"1", "G">>,
                                    <<"1", "X">>, <<"K">>}}

\* --prefix: absent, empty, without and with the trailing slash
PrefixFlags == {<<>>, << <<>> >>, << <<"b">> >>, << <<"b", "/">> >>}

\* --operation: the two known names and an unknown one
OperationFlags == {"upload", "download", "delete"}

\* --number: the decimal strings of 0..MaxItems
NumberFlags == {Str(n) : n \in 0..MaxItems}

(* ------------------------ ArgHandler.verify_args ---------------------- *)

\* the outcome of one validation step: the arguments as they stand and how
\* the step ended ("ok", "exit" for sys.exit(1), "ValueError" for int())
Step(a, end) == [args |-> a, end |-> end]

\* the threads block: the ceiling check or the default
VerifyThreadsStrict(a) ==
  IF a.threads # <<>> /\ a.threads[1] # 0
    THEN IF a.threads[1] >= MAX_THREADS THEN Step(a, "exit") ELSE Step(a, "ok")
    ELSE Step([a EXCEPT !.threads = <<DefaultThreads>>], "ok")

VerifyThreads(a) ==
  IF a.threads # <<>> /\ a.threads[1] # 0
    THEN IF a.threads[1] > MAX_THREADS THEN Step(a, "exit") ELSE Step(a, "ok")
    ELSE Step([a EXCEPT !.threads = <<DefaultThreads>>], "ok")

\* the multiplier of a size suffix, 0 for an unknown suffix
MultiplierDecimal(c) ==
  CASE c = "K" -> 1000
    [] c = "M" -> 1000 * 1000
    [] c = "G" -> 1000 * 1000 * 1000
    [] OTHER -> 0

Multiplier(c) ==
  CASE c = "K" -> KiB
    [] c = "M" -> KiB * KiB
    [] c = "G" -> KiB * KiB * KiB
    [] OTHER -> 0

\* the size block: absent and empty sizes are left as they are
VerifySize(a) ==
  IF a.size # <<>> /\ a.size[1].str # <<>>
    THEN LET s == a.size[1].str
             m == Multiplier(Last(s))
         IN  IF m = 0 THEN Step(a, "exit")
             ELSE IF ~IsDecimal(ButLast(s)) THEN Step(a, "ValueError")
             ELSE Step([a EXCEPT !.size = <<IntV(IntOf(ButLast(s)) * m)>>], "ok")
    ELSE Step(a, "ok")

\* the prefix block: a trailing slash is appended, absent becomes ''
VerifyPrefixAppend(a) ==
  IF a.prefix # <<>> /\ a.prefix[1] # <<>>
    THEN Step([a EXCEPT !.prefix = <<a.prefix[1] \o <<"/">> >>], "ok")
    ELSE Step([a EXCEPT !.prefix = << <<>> >>], "ok")

VerifyPrefix(a) ==
  IF a.prefix # <<>> /\ a.prefix[1] # <<>>
    THEN IF Last(a.prefix[1]) # "/"
           THEN Step([a EXCEPT !.prefix = <<a.prefix[1] \o <<"/">> >>], "ok")
           ELSE Step(a, "ok")
    ELSE Step([a EXCEPT !.prefix = << <<>> >>], "ok")

\* the operation block
VerifyOperationLax(a) == Step(a, "ok")

VerifyOperation(a) ==
  IF a.operation \notin {"upload", "download"}
    THEN Step(a, "exit") ELSE Step(a, "ok")

\* verify_args for the standalone command: the four blocks in order, the
\* first one that does not end "ok" ends the validation
VerifyArgs(a) ==
  LET t == VerifyThreads(a)
      s == VerifySize(t.args)
      p == VerifyPrefix(s.args)
      o == VerifyOperation(p.args)
  IN  IF t.end # "ok" THEN t
      ELSE IF s.end # "ok" THEN s
      ELSE IF p.end # "ok" THEN p
      ELSE o

(* ----------------------------- queue.Queue ---------------------------- *)

\* Queue(): no item, nothing unfinished
NewQueue == [queue |-> <<>>, unfinished_tasks |-> 0]

\* que.put(item) on an unbounded queue
PutUncounted(q, item) == [q EXCEPT !.queue = Append(q.queue, item)]

Put(q, item) ==
  [queue |-> Append(q.queue, item), unfinished_tasks |-> q.unfinished_tasks + 1]

\* que.empty()
Empty(q) == q.queue = <<>>

\* the queue that que.get() leaves when it returns Head(q.queue)
AfterGetPeek(q) == q

AfterGet(q) == [q EXCEPT !.queue = Tail(q.queue)]

\* que.task_done()
TaskDoneTwice(q) == [q EXCEPT !.unfinished_tasks = q.unfinished_tasks - 2]

TaskDone(q) == [q EXCEPT !.unfinished_tasks = q.unfinished_tasks - 1]

\* the condition que.join() waits for
DrainedWhenEmpty(q) == q.queue = <<>>

Drained(q) == q.unfinished_tasks = 0

(* ------------------------------- state -------------------------------- *)

VARIABLES
  argv,       \* the command line as it was given
  args,       \* the namespace parsed from it, rewritten by verify_args
  mainpc,     \* the coordinator's position in the __main__ block
  exitCode,   \* <<>> while the process runs, <<c>> once it exited with c
  que,        \* <<>> before Queue() is called, then <<the queue>>
  i,          \* the loop variable of the two for loops of __main__
  workers,    \* the bag of the started worker threads' states
  withdrawn,  \* history: the bag of the items que.get() returned
  puts,       \* history: the bag of the object keys put was called with
  doneCalls,  \* history: the number of que.task_done() calls
  zeroHits,   \* history: how often task_done() brought the count to zero
  failed,     \* history: whether a store call raised
  printed     \* whether the total time was printed

vars == <<argv, args, mainpc, exitCode, que, i, workers, withdrawn, puts,
          doneCalls, zeroHits, failed, printed>>

\* a worker thread: its position in worker() and the item it holds
Worker(pc, obj) == [pc |-> pc, obj |-> obj]

\* the number of worker threads at one of the positions pcs
AtPc(pcs) ==
  LET at == {w \in BagToSet(workers) : w.pc \in pcs}
      RECURSIVE Sum(_)
      Sum(S) == IF S = {} THEN 0
                ELSE LET w == CHOOSE x \in S : TRUE
                     IN  CopiesIn(w, workers) + Sum(S \ {w})
  IN  Sum(at)

\* the threads a command line asks for: 10 when the flag is absent or zero
Requested(a) ==
  IF a.threads # <<>> /\ a.threads[1] # 0 THEN a.threads[1] ELSE DefaultThreads

\* the command lines of the runs: every combination of the flags for the
\* pools of at most MaxWorkers threads, and for the larger pools (the
\* default of 10, the ceiling and one above it) the combinations with one
\* size, an absent or slash-less prefix and threads * items <= MaxLoad
Inputs ==
  {a \in [threads : ThreadFlags, size : SizeFlags, prefix : PrefixFlags,
          operation : OperationFlags, number : NumberFlags] :
     Requested(a) > MaxWorkers =>
       /\ a.size = <<StrV(<<"1", "K">>)>>
       /\ a.prefix \in {<<>>, << <<"b">> >>}
       /\ Requested(a) * IntOf(a.number) <= MaxLoad}

Init ==
  /\ argv \in Inputs
  /\ args = argv
  /\ mainpc = "parse"
  /\ exitCode = <<>>
  /\ que = <<>>
  /\ i = 0
  /\ workers = EmptyBag
  /\ withdrawn = EmptyBag
  /\ puts = EmptyBag
  /\ doneCalls = 0
  /\ zeroHits = 0
  /\ failed = FALSE
  /\ printed = FALSE

(* ---------------------------- the coordinator ------------------------- *)

\* args = ArgHandler().parse_args(): verify_args rewrites the arguments or
\* ends the process, sys.exit(1) and an uncaught ValueError both with status 1
ParseArgs ==
  /\ mainpc = "parse"
  /\ LET v == VerifyArgs(args)
     IN  /\ args' = v.args
         /\ IF v.end = "ok"
              THEN mainpc' = "new" /\ exitCode' = exitCode
              ELSE mainpc' = v.end /\ exitCode' = <<1>>
  /\ UNCHANGED <<argv, que, i, workers, withdrawn, puts, doneCalls,
                 zeroHits, failed, printed>>

\* s3 = S3(...); que = Queue()
CreateQueue ==
  /\ mainpc = "new"
  /\ que' = <<NewQueue>>
  /\ i' = 0
  /\ mainpc' = "seed"
  /\ UNCHANGED <<argv, args, exitCode, workers, withdrawn, puts, doneCalls,
                 zeroHits, failed, printed>>

\* int(args.number), the bound of the seeding loop
ItemCountInclusive(a) == IntOf(a.number) + 1

ItemCount(a) == IntOf(a.number)

\* for i in range(int(args.number)): que.put('testfile-' + str(i))
Seed ==
  /\ mainpc = "seed"
  /\ IF i < ItemCount(args)
       THEN /\ que' = <<Put(que[1], ItemName(i))>>
            /\ i' = i + 1
            /\ mainpc' = mainpc
       ELSE /\ mainpc' = "start"
            /\ UNCHANGED <<que, i>>
  /\ UNCHANGED <<argv, args, exitCode, workers, withdrawn, puts, doneCalls,
                 zeroHits, failed, printed>>

\* start_time = time.time()
StartTimer ==
  /\ mainpc = "start"
  /\ mainpc' = "spawn"
  /\ i' = 0
  /\ UNCHANGED <<argv, args, exitCode, que, workers, withdrawn, puts, doneCalls,
                 zeroHits, failed, printed>>

\* for i in range(args.threads): t = Thread(target=worker, ...); t.start()
Spawn ==
  /\ mainpc = "spawn"
  /\ IF i < args.threads[1]
       THEN /\ workers' = workers (+) SetToBag({Worker("check", <<>>)})
            /\ i' = i + 1
            /\ mainpc' = mainpc
       ELSE /\ mainpc' = "join"
            /\ UNCHANGED <<workers, i>>
  /\ UNCHANGED <<argv, args, exitCode, que, withdrawn, puts, doneCalls, zeroHits,
                 failed, printed>>

\* que.join() returns
Join ==
  /\ mainpc = "join"
  /\ Drained(que[1])
  /\ mainpc' = "end"
  /\ UNCHANGED <<argv, args, exitCode, que, i, workers, withdrawn, puts, doneCalls,
                 zeroHits, failed, printed>>

\* end_time = time.time()
EndTimer ==
  /\ mainpc = "end"
  /\ mainpc' = "report"
  /\ UNCHANGED <<argv, args, exitCode, que, i, workers, withdrawn, puts,
                 doneCalls, zeroHits, failed, printed>>

\* the total time is logged and printed, and the main thread ends
Report ==
  /\ mainpc = "report"
  /\ printed' = TRUE
  /\ mainpc' = "done"
  /\ exitCode' = <<0>>
  /\ UNCHANGED <<argv, args, que, i, workers, withdrawn, puts, doneCalls, zeroHits,
                 failed>>

(* ------------------------------ the workers -------------------------- *)

\* the threads run while the process does: they are daemon threads, and the
\* process ends when the main thread does
Running == exitCode = <<>>

\* one thread of the pool moves from state w to state v
Move(w, v) == workers' = (workers (-) SetToBag({w})) (+) SetToBag({v})

\* while not que.empty(): the thread goes on to que.get(), or returns
CheckEmpty(w) ==
  /\ Running
  /\ w.pc = "check"
  /\ Move(w, IF Empty(que[1]) THEN Worker("returned", <<>>)
                              ELSE Worker("get", <<>>))
  /\ UNCHANGED <<argv, args, mainpc, exitCode, que, i, withdrawn, puts, doneCalls,
                 zeroHits, failed, printed>>

\* obj = que.get(): the head of the queue is removed and returned; on an
\* empty queue the thread waits for a put, and none comes once the pool runs
Get(w) ==
  /\ Running
  /\ w.pc = "get"
  /\ IF Empty(que[1])
       THEN /\ Move(w, Worker("blocked", <<>>))
            /\ UNCHANGED <<que, withdrawn>>
       ELSE /\ Move(w, Worker("work", Head(que[1].queue)))
            /\ que' = <<AfterGet(que[1])>>
            /\ withdrawn' = withdrawn (+) SetToBag({Head(que[1].queue)})
  /\ UNCHANGED <<argv, args, mainpc, exitCode, i, puts, doneCalls, zeroHits,
                 failed, printed>>

\* the ways the if/elif of worker() ends for an item.  An upload raises
\* before the put is issued when the size is no number (os.urandom(None)
\* when no size was given), and else issues the put, which returns or
\* raises; a download raises, S3 defining no download method; any other
\* operation does nothing
StoreEnds(a) ==
  IF a.operation = "upload"
    THEN IF a.size = <<>> \/ "int" \notin DOMAIN a.size[1]
           THEN {[put |-> FALSE, raised |-> TRUE]}
         ELSE {[put |-> TRUE, raised |-> r] : r \in BOOLEAN}
  ELSE IF a.operation = "download"
    THEN {[put |-> FALSE, raised |-> TRUE]}
  ELSE {[put |-> FALSE, raised |-> FALSE]}

\* where the thread stands after the if/elif: an exception ends the thread
\* with the item still unacknowledged
AfterStoreNoAck(raised) == IF raised THEN "raised" ELSE "check"

AfterStore(raised) == IF raised THEN "raised" ELSE "task_done"

\* s3.put_object(args.bucket, random_file(size), obj, prefix) or s3.download
Store(w) ==
  /\ Running
  /\ w.pc = "work"
  /\ \E e \in StoreEnds(args) :
       /\ Move(w, Worker(AfterStore(e.raised), w.obj))
       /\ puts' = IF e.put
                    THEN puts (+) SetToBag({ObjectKey(args.prefix[1], w.obj)})
                    ELSE puts
       /\ failed' = (failed \/ e.raised)
  /\ UNCHANGED <<argv, args, mainpc, exitCode, que, i, withdrawn, doneCalls,
                 zeroHits, printed>>

\* que.task_done(), and back to the loop condition
Acknowledge(w) ==
  /\ Running
  /\ w.pc = "task_done"
  /\ que' = <<TaskDone(que[1])>>
  /\ doneCalls' = doneCalls + 1
  /\ zeroHits' = IF Drained(TaskDone(que[1])) THEN zeroHits + 1 ELSE zeroHits
  /\ Move(w, Worker("check", <<>>))
  /\ UNCHANGED <<argv, args, mainpc, exitCode, i, withdrawn, puts, failed, printed>>

WorkerStep ==
  \E w \in BagToSet(workers) :
    CheckEmpty(w) \/ Get(w) \/ Store(w) \/ Acknowledge(w)

(* --------------------------- specifications --------------------------- *)

Next ==
  \/ ParseArgs
  \/ CreateQueue
  \/ Seed
  \/ StartTimer
  \/ Spawn
  \/ Join
  \/ EndTimer
  \/ Report
  \/ WorkerStep

Spec == Init /\ [][Next]_vars

\* a thread that can run is eventually scheduled
FairSpec == Spec /\ WF_vars(Next)

(* ----------------------- the validation alone ------------------------ *)

\* the sizes n K and n M for n up to MaxSizeNumber, and 0 G and 1 G (2 G
\* is more bytes than the model's integers hold)
SizeStrings ==
  {Str(n) \o <<c>> : n \in 0..MaxSizeNumber, c \in {"K", "M"}}
    \cup {Str(n) \o <<"G">> : n \in {0, 1}}

\* the prefixes of at most MaxPrefixLen characters out of 'b' and '/'
PrefixStrings == UNION {[1..k -> {"b", "/"}] : k \in 0..MaxPrefixLen}

\* the command lines that differ in their size and prefix only
ArgInputs ==
  [threads : {<<2>>},
   size : {<<>>} \cup {<<StrV(s)>> : s \in SizeStrings},
   prefix : {<<>>} \cup {<<p>> : p \in PrefixStrings},
   operation : {"upload"},
   number : {Str(1)}]

ArgInit ==
  /\ argv \in ArgInputs
  /\ args = argv
  /\ mainpc = "parse"
  /\ exitCode = <<>>
  /\ que = <<>>
  /\ i = 0
  /\ workers = EmptyBag
  /\ withdrawn = EmptyBag
  /\ puts = EmptyBag
  /\ doneCalls = 0
  /\ zeroHits = 0
  /\ failed = FALSE
  /\ printed = FALSE

\* parse_args() on these command lines, and nothing after it
ArgSpec == ArgInit /\ [][ParseArgs]_vars

(* ------------------------------- claims ------------------------------- *)

\* the number of items the command line asks for
N == IntOf(argv.number)

\* the names of the items of the run
Items == {Basename \o Str(k) : k \in 0..(N - 1)}

\* the threads that hold item x: withdrawn, and not yet acknowledged
Holders(x) ==
  {w \in BagToSet(workers) : w.obj = x /\ w.pc \in {"work", "task_done", "raised"}}

\* the coordinator has left que.join()
Complete == mainpc \in {"end", "report", "done"}

\* C1: in an upload run in which no store call has raised, task_done is
\* never called more than N times and brings the outstanding count to zero
\* at most once; when the coordinator has left que.join(), exactly N calls
\* were made, the count is zero, and it reached zero once (never, for N = 0,
\* where it is zero from the start).
ExactlyNTaskDone ==
  (argv.operation = "upload" /\ ~failed) =>
     /\ doneCalls <= N
     /\ zeroHits <= 1
     /\ Complete =>
          /\ doneCalls = N
          /\ que[1].unfinished_tasks = 0
          /\ zeroHits = (IF N > 0 THEN 1 ELSE 0)

\* a run of two threads and at least two items has been reported
ExactlyNTaskDoneWitness ==
  /\ mainpc = "done"
  /\ argv.operation = "upload"
  /\ argv.threads = <<2>>
  /\ N >= 2
  /\ doneCalls = N

\* C2: once que.join() has returned, every enqueued item has been withdrawn,
\* none is left in the queue and none is held by a thread that has not
\* called task_done for it.
NoFalseCompletion ==
  Complete =>
     /\ que[1].queue = <<>>
     /\ \A x \in Items : CopiesIn(x, withdrawn) >= 1 /\ Holders(x) = {}

\* que.join() has returned in a run of several items and several threads
NoFalseCompletionWitness ==
  /\ mainpc = "end"
  /\ N >= 2
  /\ argv.threads = <<2>>
  /\ BagCardinality(withdrawn) = N

\* C3: under fair scheduling, a validated upload run with at least one
\* worker in which no store call raises reaches the printed total time.
NoDeadlock ==
  (/\ VerifyArgs(argv).end = "ok"
   /\ argv.operation = "upload"
   /\ VerifyArgs(argv).args.threads[1] >= 1) => <>(printed \/ failed)

\* a run with more threads than items is reported while a thread waits in
\* que.get()
NoDeadlockWitness ==
  /\ printed
  /\ argv.threads = <<3>>
  /\ N = 1
  /\ AtPc({"blocked"}) >= 1

\* C4: que.get() returns no item twice, and no item is held by two threads.
UniqueDispatch ==
  \A x \in BagToSet(withdrawn) :
    /\ CopiesIn(x, withdrawn) = 1
    /\ \A w \in Holders(x) : CopiesIn(w, workers) = 1
    /\ Cardinality(Holders(x)) <= 1

\* two threads hold an item each at the same time
UniqueDispatchWitness ==
  /\ AtPc({"work"}) >= 2
  /\ BagCardinality(withdrawn) >= 2

\* C5: in an upload run with a size no thread ends on an exception of its
\* put: the failure is recovered and task_done is called for the item.  (The
\* code lets the exception end the thread with the item unacknowledged.)
ErrorRecovered ==
  (argv.operation = "upload" /\ argv.size # <<>>) => AtPc({"raised"}) = 0

\* C6: no thread waits in que.get() on an empty queue.  (The code tests
\* que.empty() and calls que.get() in two steps, and a thread that loses the
\* last item to another between the two waits for ever.)
NeverBlocks == AtPc({"blocked"}) = 0

\* C7: in a download run every withdrawn item is being processed or has
\* been acknowledged with task_done.  (The code calls s3.download, which the
\* S3 class does not define, so that the thread ends on the first item.)
DownloadAcknowledged ==
  argv.operation = "download" =>
    BagCardinality(withdrawn) = AtPc({"work", "task_done"}) + doneCalls

\* C8: when the coordinator of an upload run has left que.join(), put has
\* been called exactly once for each key prefix + 'testfile-' + str(k),
\* k in [0, N), and for no other key, and the outstanding count is zero.
ExactlyNPuts ==
  (argv.operation = "upload" /\ Complete) =>
     /\ puts = SetToBag({args.prefix[1] \o Basename \o Str(k) : k \in 0..(N - 1)})
     /\ BagCardinality(puts) = N
     /\ que[1].unfinished_tasks = 0

\* three threads have uploaded three items under the prefix 'b/'
ExactlyNPutsWitness ==
  /\ mainpc = "done"
  /\ argv.operation = "upload"
  /\ argv.threads = <<3>>
  /\ N = 3
  /\ argv.prefix = << <<"b">> >>
  /\ CopiesIn(<<"b", "/">> \o Basename \o <<"2">>, puts) = 1

\* a size that verify_args rejects for its last character
BadSuffix(sz) ==
  sz # <<>> /\ sz[1].str # <<>> /\ Last(sz[1].str) \notin {"K", "M", "G"}

\* a size that verify_args passes: none, or digits and one of K, M, G
GoodSize(sz) ==
  \/ sz = <<>>
  \/ sz[1].str = <<>>
  \/ Last(sz[1].str) \in {"K", "M", "G"} /\ IsDecimal(ButLast(sz[1].str))

\* no queue, no thread and no store call
NothingStarted ==
  que = <<>> /\ workers = EmptyBag /\ puts = EmptyBag /\ withdrawn = EmptyBag

\* C9: a request for more than 100 threads ends the process with status 1
\* in verify_args, with no queue, no thread and no store call; a request
\* for exactly 100 threads, the other arguments being valid, is not ended.
CeilingEnforced ==
  /\ (argv.threads # <<>> /\ argv.threads[1] > 100) =>
        /\ mainpc \in {"parse", "exit"}
        /\ mainpc = "exit" => exitCode = <<1>>
        /\ NothingStarted
  /\ (/\ argv.threads = <<100>>
      /\ argv.operation \in {"upload", "download"}
      /\ GoodSize(argv.size)) => mainpc \notin {"exit", "ValueError"}

\* the request for 101 threads has ended the process
CeilingEnforcedWitness ==
  /\ argv.threads = <<101>>
  /\ mainpc = "exit"
  /\ argv.operation = "upload"
  /\ GoodSize(argv.size)

\* C10: an unknown operation or a size with an unknown suffix ends the
\* process with status 1 in verify_args, with no queue, no thread and no
\* store call.
NoPartialRun ==
  (argv.operation \notin {"upload", "download"} \/ BadSuffix(argv.size)) =>
     /\ mainpc \in {"parse", "exit", "ValueError"}
     /\ mainpc # "parse" => exitCode = <<1>>
     /\ NothingStarted

\* the unknown suffix has ended the process, the other arguments being valid
NoPartialRunWitness ==
  /\ mainpc = "exit"
  /\ BadSuffix(argv.size)
  /\ argv.operation = "upload"
  /\ argv.threads = <<2>>

\* verify_args has returned and the run goes on
Validated == mainpc \notin {"parse", "exit", "ValueError"}

\* C11: when no size is given, the size the run uses after validation is
\* the default of 1024 bytes.  (verify_args has no else branch for the
\* size: args.size stays None, and random_file(None) raises in every
\* upload.)
DefaultSize == (argv.size = <<>> /\ Validated) => args.size = <<IntV(1024)>>

\* C12: the size n K is validated to n * 1024 bytes, n M to n * 1024^2 and
\* n G to n * 1024^3, for every n of the range; 10K is 10240 bytes, 2M is
\* 2097152 and 1G is 1073741824.
SizeParsed ==
  Validated =>
    /\ \A n \in 0..MaxSizeNumber :
         /\ argv.size = <<StrV(Str(n) \o <<"K">>)>> =>
              args.size = <<IntV(n * 1024)>>
         /\ argv.size = <<StrV(Str(n) \o <<"M">>)>> =>
              args.size = <<IntV(n * 1048576)>>
         /\ (n <= 1 /\ argv.size = <<StrV(Str(n) \o <<"G">>)>>) =>
              args.size = <<IntV(n * 1073741824)>>
    /\ argv.size = <<StrV(<<"1", "0", "K">>)>> => args.size = <<IntV(10240)>>
    /\ argv.size = <<StrV(<<"2", "M">>)>> => args.size = <<IntV(2097152)>>
    /\ argv.size = <<StrV(<<"1", "G">>)>> => args.size = <<IntV(1073741824)>>

\* the size 10K has been validated
SizeParsedWitness ==
  /\ mainpc = "new"
  /\ argv.size = <<StrV(<<"1", "0", "K">>)>>
  /\ args.size = <<IntV(10240)>>

\* C13: the validated prefix is '' for an absent or empty prefix, the
\* prefix itself when it ends with '/', and the prefix with one '/'
\* appended otherwise; validating it again leaves it as it is.
PrefixNormalized ==
  Validated =>
    /\ args.prefix =
         IF argv.prefix = <<>> \/ argv.prefix[1] = <<>> THEN << <<>> >>
         ELSE IF argv.prefix[1][Len(argv.prefix[1])] = "/" THEN argv.prefix
         ELSE <<argv.prefix[1] \o <<"/">> >>
    /\ VerifyPrefix(args).args.prefix = args.prefix

\* 'b' has been validated to 'b/'
PrefixNormalizedWitness ==
  /\ mainpc = "new"
  /\ argv.prefix = << <<"b">> >>
  /\ args.prefix = << <<"b", "/">> >>

\* C14: when que.join() has returned, every started thread has returned
\* from worker().  (The threads are daemons that are never joined: the one
\* that made the last task_done call is still before its loop test, and
\* the ones that lost the race for the last item wait in que.get().)
WorkersExited == Complete => AtPc({"returned"}) = BagCardinality(workers)

\* the items put in the queue so far
Enqueued == IF mainpc = "seed" THEN i ELSE N

\* C15: the outstanding count is never negative and is the number of items
\* in the queue plus the number of items a thread has withdrawn and not
\* acknowledged; task_done has been called for no more items than were
\* enqueued.
OutstandingCount ==
  que # <<>> =>
    /\ que[1].unfinished_tasks >= 0
    /\ que[1].unfinished_tasks =
         Len(que[1].queue) + AtPc({"work", "task_done", "raised"})
    /\ doneCalls <= Enqueued
    /\ doneCalls + que[1].unfinished_tasks = Enqueued

\* one item is in the queue, one is held by a thread, one is acknowledged
OutstandingCountWitness ==
  /\ que # <<>>
  /\ Len(que[1].queue) = 1
  /\ AtPc({"work"}) = 1
  /\ doneCalls = 1
  /\ que[1].unfinished_tasks = 2

\* the start timestamp has been taken
StartTaken == mainpc \in {"spawn", "join", "end", "report", "done"}

\* the end timestamp has been taken
EndTaken == mainpc \in {"report", "done"}

\* C16: when the start timestamp is taken all N items are enqueued; a
\* thread is started only after it; the queue does not grow once a thread
\* is started; the end timestamp is taken only from the state in which
\* que.join() has returned, with nothing outstanding; and a store call is
\* made only after the start and before the end timestamp.
CoordinatorOrder ==
  /\ [](StartTaken => que # <<>> /\ doneCalls + que[1].unfinished_tasks = N)
  /\ [](workers # EmptyBag => StartTaken)
  /\ [][workers # EmptyBag => Len(que'[1].queue) <= Len(que[1].queue)]_vars
  /\ [][(EndTaken' /\ ~EndTaken) =>
          mainpc = "end" /\ que[1].unfinished_tasks = 0]_vars
  /\ [][(puts' # puts \/ AtPc({"work"})' < AtPc({"work"})) =>
          StartTaken /\ ~EndTaken]_vars

\* the end timestamp is taken after two uploads, a thread still being
\* before its loop test
CoordinatorOrderWitness ==
  /\ mainpc = "report"
  /\ BagCardinality(puts) >= 2
  /\ AtPc({"check"}) >= 1

\* the coordinator has left the loop that starts the threads
PoolStarted == mainpc \in {"join", "end", "report", "done"}

\* C17: the validated thread count W is 10 when the flag is absent; no more
\* than W threads are started, exactly W once the loop has ended, and no
\* more than W store calls are in flight.  (A negative count passes
\* verify_args, the subject of C18, and range() of it starts no thread.)
BoundedPool ==
  Validated =>
    /\ argv.threads = <<>> => args.threads = <<10>>
    /\ BagCardinality(workers) <= args.threads[1]
    /\ PoolStarted => BagCardinality(workers) = args.threads[1]
    /\ AtPc({"work"}) <= args.threads[1]

\* C18: a validated run has a thread count from 1 to 100, and with N >= 1
\* items it does not wait in que.join() with no thread started.
\* (verify_args tests the count against MAX_THREADS only.)
WorkerCountInRange ==
  Validated =>
    /\ args.threads[1] \in 1..100
    /\ (mainpc = "join" /\ N >= 1) => workers # EmptyBag

=============================================================================
